---- MODULE Spec2Model ----
(***************************************************************************)
(* State-machine model of video_stats.py: the pipeline                     *)
(*   get_playlist_id -> get_video_ids -> extract_video_data -> save_to_json *)
(* driven against a nondeterministic remote service.  One action is one    *)
(* blocking step of the script: a function entry, one HTTP request with    *)
(* the processing of its response, a function return, or the file write.   *)
(***************************************************************************)
EXTENDS Integers, Sequences, FiniteSets, TLC

VARIABLES
    pc,              \* position of the script
    error,           \* exception that terminated the run, or None
    log,             \* every request issued and every file opened, in order
    names,           \* module-level names bound so far by __main__
    playlistId,      \* __main__: playlistId
    video_ids,       \* __main__: video_ids
    video_data,      \* __main__: video_data
    chanResps,       \* responses received by get_playlist_id, in order
    acc_ids,         \* get_video_ids: local video_ids
    pageToken,       \* get_video_ids: local pageToken
    pageResps,       \* responses received by get_video_ids, in order
    extracted_data,  \* extract_video_data: local extracted_data
    batchNo,         \* extract_video_data: index of the next batch of the generator
    vidResps,        \* responses received by extract_video_data in this call
    fs,              \* files on disk: path -> lines of text
    call,            \* which call of extract_video_data is running (1, or 2 on a re-run)
    first,           \* what the first call of extract_video_data saw and returned
    unavailable      \* remote state: videos the metadata lookup returns no item for

vars == <<pc, error, log, names, playlistId, video_ids, video_data, chanResps, acc_ids,
          pageToken, pageResps, extracted_data, batchNo, vidResps, fs, call, first,
          unavailable>>

----------------------------------------------------------------------------
(* Bounds of the model *)

\* pages the remote serves before it must end the listing
MaxPages == 3
\* channel items a (possibly malformed) channel lookup response may hold
MaxChannelItems == 2

----------------------------------------------------------------------------
(* Program constants and Python values *)

maxResults == 50
CHANNEL_HANDLE == "MrBeast"

\* Python's None / JSON null
None == "<None>"

\* variant: the loop tests `pageToken is not None` instead of its truth value
Truthy_is_not_none(v) == v /= None

\* truth value of an optional string, as `if pageToken` / `if not pageToken` test it
Truthy(v) == v /= None /\ v /= ""

\* dict.get(key, default)
Get(d, k, default) == IF k \in DOMAIN d THEN d[k] ELSE default

\* requests.exceptions.RequestException and its subclasses
RequestExceptions == {"HTTPError", "ConnectionError"}

\* variant: the status of the response is never checked
raise_for_status_never(response) == FALSE

\* response.raise_for_status(): raises HTTPError on a 4xx/5xx status
raise_for_status(response) == response.status >= 400

\* requests.get(url) followed by response.raise_for_status(): the exception the
\* pair raises, or None.  A request that got no response at all is recorded as a
\* response of status 0: requests.get itself raised ConnectionError.
request_raises(response) ==
    IF response.status = 0 THEN "ConnectionError"
    ELSE IF raise_for_status(response) THEN "HTTPError"
    ELSE None

\* the `except requests.exceptions.RequestException as e: raise e` clauses:
\* whatever is raised in the try block leaves the function unchanged
Reraise(e) == e

----------------------------------------------------------------------------
(* The remote service *)

Response(status, data) == [status |-> status, data |-> data]
Failure == Response(500, <<>>)
ConnectionFailed == Response(0, <<>>)
Failures == {Failure, ConnectionFailed}

\* identifiers of the uploads listing, in listing order
MaxVids == MaxPages * maxResults
Vid(i) == "vid" \o ToString(i)
VidIndex == [s \in {Vid(i) : i \in 1..MaxVids} |-> CHOOSE i \in 1..MaxVids : Vid(i) = s]

ChannelItem(uploads) ==
    [contentDetails |->
        [relatedPlaylists |-> IF uploads = None THEN <<>> ELSE [uploads |-> uploads]]]

\* channel lookup: a failure, a body without "items", or 0..MaxChannelItems items:
\* the channel asked for (with or without the nested uploads field) followed by
\* items of other channels (every second of them without the field)
ChannelResponses ==
    Failures \cup {Response(200, <<>>), Response(200, [items |-> <<>>])} \cup
    { Response(200, [items |-> [j \in 1..k |->
                        IF j = 1 THEN ChannelItem(u)
                        ELSE ChannelItem(IF j % 2 = 0 THEN "UU999" ELSE None)]]) :
        k \in 1..MaxChannelItems, u \in {"UU123", None} }

PageSizes == {1, maxResults}
PageTokens == {"", "CAUQAA"}

PlaylistItem(v) == [contentDetails |-> [videoId |-> v]]

Served(resps) ==
    LET RECURSIVE count(_)
        count(k) == IF k = 0 THEN 0
                    ELSE count(k - 1) + Len(Get(resps[k].data, "items", <<>>))
    IN count(Len(resps))

\* one page of the listing: a failure, or a body with the next n identifiers or
\* without an "items" key, carrying a cursor, an empty cursor or none; a body
\* without items carries no cursor, and the listing ends by page MaxPages
PageResponses(resps) ==
    LET base == Served(resps)
        last == Len(resps) + 1 >= MaxPages
        bodies == { [items |-> [j \in 1..n |-> PlaylistItem(Vid(base + j))]] : n \in PageSizes }
        tokens == IF last THEN {""} ELSE PageTokens
    IN Failures \cup {Response(200, <<>>)}
       \cup { Response(200, b) : b \in bodies }
       \cup { Response(200, b @@ [nextPageToken |-> t]) : b \in bodies, t \in tokens }

StatKeys == {"viewCount", "likeCount", "commentCount"}
StatValue == [viewCount |-> "1000", likeCount |-> "100", commentCount |-> "10"]
OmitCycle == << {}, {"likeCount"}, {"viewCount"}, {"commentCount"},
                {"viewCount", "likeCount"}, {"likeCount", "commentCount"},
                {"viewCount", "commentCount"}, StatKeys >>
\* the counters the service omits for a video (some videos disable counters)
Omitted(v) == OmitCycle[(VidIndex[v] % Len(OmitCycle)) + 1]

VideoItem(v) ==
    [id |-> v,
     snippet |-> [title |-> "Title of " \o v, publishedAt |-> "2024-01-01T00:00:00Z"],
     contentDetails |-> [duration |-> "PT10M"],
     statistics |-> [k \in StatKeys \ Omitted(v) |-> StatValue[k]]]

\* the sets of videos the listing names but the metadata lookup has no item for
\* (private or removed videos); one of them is the remote's state for the run
Unavailables == { {}, {Vid(2), Vid(maxResults + 1)} }

\* metadata lookup of one batch: a failure, a body without an "items" key, or
\* one item per requested id that is available, in request order
VideoResponses(batch) ==
    LET found == SelectSeq(batch, LAMBDA v : v \notin unavailable)
    IN Failures \cup
       {Response(200, <<>>),
        Response(200, [items |-> [j \in 1..Len(found) |-> VideoItem(found[j])]])}

----------------------------------------------------------------------------
(* Pure parts of the script *)

\* variant: the last channel item is read instead of the first
get_playlist_id_body_last(response) ==
    IF request_raises(response) /= None
    THEN [raise |-> Reraise(request_raises(response)), value |-> None]
    ELSE LET data == response.data IN
         IF "items" \notin DOMAIN data THEN [raise |-> Reraise("KeyError"), value |-> None]
         ELSE IF Len(data["items"]) = 0 THEN [raise |-> Reraise("IndexError"), value |-> None]
         ELSE LET channel_items == data["items"][Len(data["items"])]
                  related == channel_items.contentDetails.relatedPlaylists
              IN IF "uploads" \notin DOMAIN related
                 THEN [raise |-> Reraise("KeyError"), value |-> None]
                 ELSE [raise |-> None, value |-> related["uploads"]]

\* variant: missing structure is read with defaults and yields None instead of raising
get_playlist_id_body_lenient(response) ==
    IF request_raises(response) /= None
    THEN [raise |-> Reraise(request_raises(response)), value |-> None]
    ELSE LET items == Get(response.data, "items", <<>>) IN
         IF Len(items) = 0 THEN [raise |-> None, value |-> None]
         ELSE [raise |-> None,
               value |-> Get(items[1].contentDetails.relatedPlaylists, "uploads", None)]

\* get_playlist_id, lines 23-34, on a received response
get_playlist_id_body(response) ==
    IF request_raises(response) /= None
    THEN [raise |-> Reraise(request_raises(response)), value |-> None]
    ELSE LET data == response.data IN
         IF "items" \notin DOMAIN data THEN [raise |-> Reraise("KeyError"), value |-> None]
         ELSE IF Len(data["items"]) = 0 THEN [raise |-> Reraise("IndexError"), value |-> None]
         ELSE LET channel_items == data["items"][1]
                  related == channel_items.contentDetails.relatedPlaylists
              IN IF "uploads" \notin DOMAIN related
                 THEN [raise |-> Reraise("KeyError"), value |-> None]
                 ELSE [raise |-> None, value |-> related["uploads"]]

\* get_video_ids, lines 58-60: the ids of one page, in item order
page_video_ids(data) ==
    LET items == Get(data, "items", <<>>)
    IN [j \in 1..Len(items) |-> items[j].contentDetails.videoId]

\* variant: each slice ends one element early (video_id + batch_size - 1)
batch_list_short_slice(video_id_list, batch_size) ==
    LET starts == { s \in 0..(Len(video_id_list) - 1) : s % batch_size = 0 }
        n == Cardinality(starts)
        lo(b) == (b - 1) * batch_size
        hi(b) == IF lo(b) + batch_size - 1 < Len(video_id_list)
                 THEN lo(b) + batch_size - 1 ELSE Len(video_id_list)
    IN [b \in 1..n |-> SubSeq(video_id_list, lo(b) + 1, hi(b))]

\* variant: the generator always yields a first slice, even of an empty list
batch_list_at_least_one(video_id_list, batch_size) ==
    LET starts == { s \in 0..(Len(video_id_list) - 1) : s % batch_size = 0 } \cup {0}
        n == Cardinality(starts)
        lo(b) == (b - 1) * batch_size
        hi(b) == IF lo(b) + batch_size < Len(video_id_list)
                 THEN lo(b) + batch_size ELSE Len(video_id_list)
    IN [b \in 1..n |-> SubSeq(video_id_list, lo(b) + 1, hi(b))]

\* extract_video_data.batch_list: the slices the generator yields, in order
batch_list(video_id_list, batch_size) ==
    LET starts == { s \in 0..(Len(video_id_list) - 1) : s % batch_size = 0 }
        n == Cardinality(starts)
        lo(b) == (b - 1) * batch_size
        hi(b) == IF lo(b) + batch_size < Len(video_id_list)
                 THEN lo(b) + batch_size ELSE Len(video_id_list)
    IN [b \in 1..n |-> SubSeq(video_id_list, lo(b) + 1, hi(b))]

\* ",".join(batch)
Join(batch) ==
    LET RECURSIVE join(_, _)
        join(lo, hi) == IF lo > hi THEN ""
                        ELSE IF lo = hi THEN batch[lo]
                        ELSE LET mid == (lo + hi) \div 2
                             IN join(lo, mid) \o "," \o join(mid + 1, hi)
    IN join(1, Len(batch))

\* variant: a missing counter defaults to "0" instead of None
video_data_of_zero(item) ==
    [video_id     |-> item.id,
     title        |-> item.snippet.title,
     publishedAt  |-> item.snippet.publishedAt,
     duration     |-> item.contentDetails.duration,
     viewCount    |-> Get(item.statistics, "viewCount", "0"),
     likeCount    |-> Get(item.statistics, "likeCount", "0"),
     commentCount |-> Get(item.statistics, "commentCount", "0")]

\* extract_video_data, lines 97-110: the record built from one response item
video_data_of(item) ==
    [video_id     |-> item.id,
     title        |-> item.snippet.title,
     publishedAt  |-> item.snippet.publishedAt,
     duration     |-> item.contentDetails.duration,
     viewCount    |-> Get(item.statistics, "viewCount", None),
     likeCount    |-> Get(item.statistics, "likeCount", None),
     commentCount |-> Get(item.statistics, "commentCount", None)]

\* variant: the items of a response are walked last to first
batch_records_reversed(data) ==
    LET items == Get(data, "items", <<>>)
    IN [j \in 1..Len(items) |-> video_data_of(items[Len(items) + 1 - j])]

\* extract_video_data, lines 96-112: the records of one response, in item order
batch_records(data) ==
    LET items == Get(data, "items", <<>>)
    IN [j \in 1..Len(items) |-> video_data_of(items[j])]

\* json.dump(extracted_data, f, indent=4, ensure_ascii=False): the lines written.
\* An empty list is written as "[]"; otherwise one object per record, in list
\* order, its keys in insertion order, None as null, text unescaped.
JsonKeys == <<"video_id", "title", "publishedAt", "duration",
              "viewCount", "likeCount", "commentCount">>
JsonValue(v) == IF v = None THEN "null" ELSE "\"" \o v \o "\""
JsonObjectLine(rec, k, isLast) ==
    IF k = 0 THEN "    {"
    ELSE IF k <= Len(JsonKeys)
    THEN "        \"" \o JsonKeys[k] \o "\": " \o JsonValue(rec[JsonKeys[k]])
         \o (IF k < Len(JsonKeys) THEN "," ELSE "")
    ELSE IF isLast THEN "    }" ELSE "    },"
JsonDump(records) ==
    LET per == Len(JsonKeys) + 2
        n == Len(records)
    IN IF n = 0 THEN <<"[]">>
       ELSE <<"[">>
            \o [i \in 1..(n * per) |->
                  JsonObjectLine(records[((i - 1) \div per) + 1], (i - 1) % per,
                                 ((i - 1) \div per) + 1 = n)]
            \o <<"]">>

Dates == {"2025-01-01", "2025-01-02"}
file_path(today) == "./data/YT_data_" \o today \o ".json"

----------------------------------------------------------------------------
(* The script *)

Init ==
    /\ pc = "main"
    /\ error = None
    /\ log = <<>>
    /\ names = {}
    /\ playlistId = None
    /\ video_ids = <<>>
    /\ video_data = <<>>
    /\ chanResps = <<>>
    /\ acc_ids = <<>>
    /\ pageToken = None
    /\ pageResps = <<>>
    /\ extracted_data = <<>>
    /\ batchNo = 1
    /\ vidResps = <<>>
    /\ fs = <<>>
    /\ call = 1
    /\ unavailable \in Unavailables
    /\ first = [at |-> 0, responses |-> <<>>, result |-> <<>>, error |-> None]

\* an exception nobody handles: the interpreter prints the trace and exits
Terminate(e) ==
    /\ pc' = "terminated"
    /\ error' = e

\* line 129: playlistId = get_playlist_id()
get_playlist_id ==
    /\ pc = "main"
    /\ \E response \in ChannelResponses :
         LET r == get_playlist_id_body(response) IN
         /\ log' = Append(log, [op |-> "channels", forHandle |-> CHANNEL_HANDLE])
         /\ chanResps' = Append(chanResps, response)
         /\ IF r.raise /= None
            THEN /\ Terminate(r.raise)
                 /\ UNCHANGED <<playlistId, names>>
            ELSE /\ playlistId' = r.value
                 /\ names' = names \cup {"playlistId"}
                 /\ pc' = "call_get_video_ids"
                 /\ UNCHANGED error
    /\ UNCHANGED <<video_ids, video_data, acc_ids, pageToken, pageResps,
                   extracted_data, batchNo, vidResps, fs, call, first, unavailable>>

\* lines 42-45: entry of get_video_ids(playlistId)
get_video_ids_enter ==
    /\ pc = "call_get_video_ids"
    /\ acc_ids' = <<>>
    /\ pageToken' = None
    /\ pc' = "page_loop"
    /\ UNCHANGED <<error, log, names, playlistId, video_ids, video_data, chanResps,
                   pageResps, extracted_data, batchNo, vidResps, fs, call, first, unavailable>>

\* lines 48-65: one iteration of the pagination loop
get_video_ids_page ==
    /\ pc = "page_loop"
    /\ \E response \in PageResponses(pageResps) :
         /\ log' = Append(log, [op |-> "playlistItems", playlistId |-> playlistId,
                                maxResults |-> maxResults,
                                pageToken |-> IF Truthy(pageToken) THEN pageToken ELSE None])
         /\ pageResps' = Append(pageResps, response)
         /\ IF request_raises(response) /= None
            THEN /\ Terminate(Reraise(request_raises(response)))
                 /\ UNCHANGED <<acc_ids, pageToken>>
            ELSE /\ acc_ids' = acc_ids \o page_video_ids(response.data)
                 /\ pageToken' = Get(response.data, "nextPageToken", None)
                 /\ pc' = IF ~Truthy(pageToken') THEN "page_return" ELSE "page_loop"
                 /\ UNCHANGED error
    /\ UNCHANGED <<names, playlistId, video_ids, video_data, chanResps,
                   extracted_data, batchNo, vidResps, fs, call, first, unavailable>>

\* line 67 and line 132: return video_ids; video_ids = get_video_ids(playlistId)
get_video_ids_return ==
    /\ pc = "page_return"
    /\ video_ids' = acc_ids
    /\ names' = names \cup {"video_ids"}
    /\ pc' = "call_extract"
    /\ UNCHANGED <<error, log, playlistId, video_data, chanResps, acc_ids, pageToken,
                   pageResps, extracted_data, batchNo, vidResps, fs, call, first, unavailable>>

\* variant: the accumulator outlives the call (a module-level list or a mutable
\* default argument) and is not emptied on entry
extract_video_data_enter_keep ==
    /\ pc = "call_extract"
    /\ batchNo' = 1
    /\ vidResps' = <<>>
    /\ pc' = "batch_loop"
    /\ UNCHANGED <<error, log, names, playlistId, video_ids, video_data, chanResps,
                   acc_ids, pageToken, pageResps, extracted_data, fs, call, first,
                   unavailable>>

\* line 79: entry of extract_video_data(video_ids)
extract_video_data_enter ==
    /\ pc = "call_extract"
    /\ extracted_data' = <<>>
    /\ batchNo' = 1
    /\ vidResps' = <<>>
    /\ pc' = "batch_loop"
    /\ UNCHANGED <<error, log, names, playlistId, video_ids, video_data, chanResps,
                   acc_ids, pageToken, pageResps, fs, call, first, unavailable>>

\* the remote answers the first call freely; a re-run is played against
\* identical responses
RemoteVideos(batch) ==
    IF call = 1 THEN VideoResponses(batch)
    ELSE IF batchNo <= Len(first.responses) THEN {first.responses[batchNo]}
    ELSE Failures

\* lines 87-112: one iteration of the batch loop
extract_video_data_batch ==
    /\ pc = "batch_loop"
    /\ batchNo <= Len(batch_list(video_ids, maxResults))
    /\ LET batch == batch_list(video_ids, maxResults)[batchNo]
           video_ids_str == Join(batch)
       IN \E response \in RemoteVideos(batch) :
            /\ log' = Append(log, [op |-> "videos", id |-> video_ids_str])
            /\ vidResps' = Append(vidResps, response)
            /\ IF request_raises(response) /= None
               THEN /\ Terminate(Reraise(request_raises(response)))
                    /\ UNCHANGED <<extracted_data, batchNo>>
               ELSE /\ extracted_data' = extracted_data \o batch_records(response.data)
                    /\ batchNo' = batchNo + 1
                    /\ UNCHANGED <<pc, error>>
    /\ UNCHANGED <<names, playlistId, video_ids, video_data, chanResps, acc_ids,
                   pageToken, pageResps, fs, call, first, unavailable>>

\* line 114 and line 135: return extracted_data; video_data = extract_video_data(video_ids)
extract_video_data_return ==
    /\ pc = "batch_loop"
    /\ batchNo > Len(batch_list(video_ids, maxResults))
    /\ video_data' = extracted_data
    /\ names' = names \cup {"video_data"}
    /\ pc' = IF call = 1 THEN "call_save" ELSE "rerun_done"
    /\ UNCHANGED <<error, log, playlistId, video_ids, chanResps, acc_ids, pageToken,
                   pageResps, extracted_data, batchNo, vidResps, fs, call, first, unavailable>>

\* variant: __main__ saves before it extracts
save_to_json_early ==
    /\ pc = "call_extract"
    /\ \E today \in Dates :
         /\ log' = Append(log, [op |-> "open_w", path |-> file_path(today)])
         /\ fs' = (file_path(today) :> JsonDump(video_data)) @@ fs
    /\ pc' = "exit"
    /\ UNCHANGED <<error, names, playlistId, video_ids, video_data, chanResps, acc_ids,
                   pageToken, pageResps, extracted_data, batchNo, vidResps, call, first,
                   unavailable>>

\* lines 119-123 and line 138: save_to_json(video_data), then the script ends.
\* The directory ./data exists and is writable, which the script takes for granted.
save_to_json ==
    /\ pc = "call_save"
    /\ \E today \in Dates :
         /\ log' = Append(log, [op |-> "open_w", path |-> file_path(today)])
         /\ fs' = (file_path(today) :> JsonDump(video_data)) @@ fs
    /\ pc' = "exit"
    /\ UNCHANGED <<error, names, playlistId, video_ids, video_data, chanResps, acc_ids,
                   pageToken, pageResps, extracted_data, batchNo, vidResps, call, first, unavailable>>

Next ==
    \/ get_playlist_id
    \/ get_video_ids_enter
    \/ get_video_ids_page
    \/ get_video_ids_return
    \/ extract_video_data_enter
    \/ extract_video_data_batch
    \/ extract_video_data_return
    \/ save_to_json

Spec == Init /\ [][Next]_vars

\* extract_video_data(video_ids) called a second time with the same id list, after
\* the first call returned or raised
rerun_extract_video_data ==
    /\ call = 1
    /\ \/ pc = "exit"
       \/ pc = "terminated" /\ "video_ids" \in names
    /\ first' = [at |-> Len(log), responses |-> vidResps,
                 result |-> IF pc = "exit" THEN video_data ELSE <<>>, error |-> error]
    /\ call' = 2
    /\ error' = None
    /\ pc' = "call_extract"
    /\ UNCHANGED <<log, names, playlistId, video_ids, video_data, chanResps, acc_ids,
                   pageToken, pageResps, extracted_data, batchNo, vidResps, fs,
                   unavailable>>

NextRerun ==
    \/ Next
    \/ rerun_extract_video_data

SpecRerun == Init /\ [][NextRerun]_vars

----------------------------------------------------------------------------
(* Vocabulary of the properties *)

Ops(o) == SelectSeq(log, LAMBDA e : e.op = o)
Ceil(n, d) == (n + d - 1) \div d
Bound(name) == name \in names

Concat(seqs) ==
    LET RECURSIVE cat(_)
        cat(k) == IF k = 0 THEN <<>> ELSE cat(k - 1) \o seqs[k]
    IN cat(Len(seqs))

Succeeded(resp) == resp.status >= 200 /\ resp.status < 400
ItemsOf(resp) == IF "items" \in DOMAIN resp.data THEN resp.data["items"] ELSE <<>>

\* a response carries a next-page cursor: the field is there and is not empty
HasCursor(resp) ==
    /\ "nextPageToken" \in DOMAIN resp.data
    /\ resp.data["nextPageToken"] /= ""
CursorOf(resp) == IF HasCursor(resp) THEN resp.data["nextPageToken"] ELSE None

\* the ids of the pages received, in page order and in item order
PagedIds ==
    Concat([k \in 1..Len(pageResps) |->
              [j \in 1..Len(ItemsOf(pageResps[k])) |->
                 ItemsOf(pageResps[k])[j].contentDetails.videoId]])

\* the items of the successful metadata responses, in batch order and item order
VideoItems ==
    Concat([k \in 1..Len(vidResps) |->
              IF Succeeded(vidResps[k]) THEN ItemsOf(vidResps[k]) ELSE <<>>])

AllResps == chanResps \o pageResps \o vidResps
SomeRequestFailed == \E k \in 1..Len(AllResps) : ~Succeeded(AllResps[k])

----------------------------------------------------------------------------
(* C1 *)

\* C1: for every non-empty id list handed to extract_video_data, the batches of
\* batch_list(ids, 50) each hold 1..50 ids, their concatenation in batch order is
\* the input list, there are ceil(len/50) of them, request k carries batch k, and
\* a call in which every request succeeds issues exactly ceil(len/50) requests.
C1_BatchesPartitionInput ==
    (Bound("video_ids") /\ Len(video_ids) > 0) =>
        LET bs == batch_list(video_ids, maxResults)
            reqs == Ops("videos")
        IN /\ \A b \in 1..Len(bs) : Len(bs[b]) >= 1 /\ Len(bs[b]) <= maxResults
           /\ Concat(bs) = video_ids
           /\ Len(bs) = Ceil(Len(video_ids), maxResults)
           /\ Len(reqs) <= Len(bs)
           /\ \A k \in 1..Len(reqs) : reqs[k].id = Join(bs[k])
           /\ Bound("video_data") => Len(reqs) = Ceil(Len(video_ids), maxResults)

C1_Witness ==
    /\ pc = "exit"
    /\ Len(video_ids) = 2 * maxResults + 1
    /\ Len(Ops("videos")) = Ceil(2 * maxResults + 1, maxResults)
    /\ Len(batch_list(video_ids, maxResults)[Len(Ops("videos"))]) = 1

----------------------------------------------------------------------------
(* C2 *)

\* C2: get_video_ids keeps fetching while every page received carried a cursor,
\* and returns exactly at the first successful page without one: after N pages
\* it has issued N fetches, each after the first carrying the previous page's
\* cursor, and returns the ids of all pages in page order and item order.
C2_PaginationStopsAtFirstPageWithoutCursor ==
    LET N == Len(pageResps)
        reqs == Ops("playlistItems")
    IN /\ Len(reqs) = N
       /\ \A k \in 1..N : reqs[k].pageToken = IF k = 1 THEN None ELSE CursorOf(pageResps[k - 1])
       /\ pc = "page_loop" =>
            \A k \in 1..N : Succeeded(pageResps[k]) /\ HasCursor(pageResps[k])
       /\ (pc = "page_return" \/ Bound("video_ids")) =>
            /\ N >= 1
            /\ \A k \in 1..N : Succeeded(pageResps[k])
            /\ \A k \in 1..(N - 1) : HasCursor(pageResps[k])
            /\ ~HasCursor(pageResps[N])
            /\ acc_ids = PagedIds
            /\ Bound("video_ids") => video_ids = PagedIds

C2_Witness ==
    /\ Bound("video_ids")
    /\ Len(pageResps) >= 3
    /\ Len(video_ids) = 2 * maxResults + 1
    /\ \E k \in 1..Len(pageResps) : Len(ItemsOf(pageResps[k])) = 1

----------------------------------------------------------------------------
(* C3 *)

\* C3: once any request of the run has failed (channel lookup, page fetch or
\* metadata batch), the run has terminated with a RequestException, the failed
\* request is the last thing the run did, the function that issued it bound no
\* result in its caller, and no file was opened or written.
C3_FailedRequestAbortsRun ==
    SomeRequestFailed =>
        /\ pc = "terminated"
        /\ error \in RequestExceptions
        /\ ~Succeeded(AllResps[Len(AllResps)])
        /\ \A k \in 1..(Len(AllResps) - 1) : Succeeded(AllResps[k])
        /\ Len(log) = Len(AllResps)
        /\ Ops("open_w") = <<>>
        /\ DOMAIN fs = {}
        /\ ~Bound("video_data")
        /\ vidResps = <<>> => ~Bound("video_ids")
        /\ (vidResps = <<>> /\ pageResps = <<>>) => ~Bound("playlistId")

C3_Witness ==
    /\ pc = "terminated"
    /\ Len(vidResps) = 2
    /\ Succeeded(vidResps[1])
    /\ vidResps[2].status = 500
    /\ error = "HTTPError"
    /\ Len(extracted_data) > 0
    /\ DOMAIN fs = {}

----------------------------------------------------------------------------
(* C4 *)

\* C4: every item of a successful metadata response yields one record, and that
\* record has the keys viewCount, likeCount and commentCount whatever subset of
\* them the service omitted: None for an omitted one, the service's value for a
\* present one; a successful response never terminates the run.
C4_MissingStatisticsAreNone ==
    /\ Len(extracted_data) = Len(VideoItems)
    /\ \A p \in 1..Len(VideoItems) :
         LET rec == extracted_data[p]
             st == VideoItems[p].statistics
         IN /\ StatKeys \subseteq DOMAIN rec
            /\ \A key \in StatKeys :
                 rec[key] = IF key \in DOMAIN st THEN st[key] ELSE None
    /\ (pc = "terminated" /\ vidResps /= <<>>) => ~Succeeded(vidResps[Len(vidResps)])

C4_Witness ==
    /\ pc = "exit"
    /\ \A omitted \in SUBSET StatKeys :
         \E p \in 1..Len(video_data) :
            /\ DOMAIN VideoItems[p].statistics = StatKeys \ omitted
            /\ \A key \in omitted : video_data[p][key] = None
            /\ \A key \in StatKeys \ omitted : video_data[p][key] = StatValue[key]

----------------------------------------------------------------------------
(* C5 *)

\* C5 as stated: when every batch request succeeds, the result holds exactly one
\* record per input id, the i-th record being that of the i-th input id.
C5_OneRecordPerInputId ==
    Bound("video_data") =>
        /\ Len(video_data) = Len(video_ids)
        /\ \A i \in 1..Len(video_data) : video_data[i].video_id = video_ids[i]

\* every response held exactly one item for each id of its request, in request order
ResponsesComplete ==
    \A k \in 1..Len(vidResps) :
        Join([j \in 1..Len(ItemsOf(vidResps[k])) |-> ItemsOf(vidResps[k])[j].id])
            = Ops("videos")[k].id

\* C5 amended: when every batch request succeeds, the result holds exactly one
\* record per item of the responses, in batch order and item order, the i-th
\* record carrying the id of the i-th response item; it is one record per input
\* id in input order when every response held exactly one item for each
\* requested id in request order.
C5_OneRecordPerResponseItem ==
    Bound("video_data") =>
        /\ video_data = extracted_data
        /\ Len(video_data) = Len(VideoItems)
        /\ \A p \in 1..Len(video_data) : video_data[p].video_id = VideoItems[p].id
        /\ ResponsesComplete =>
             /\ Len(video_data) = Len(video_ids)
             /\ \A i \in 1..Len(video_data) : video_data[i].video_id = video_ids[i]

C5_Witness ==
    /\ pc = "exit"
    /\ Len(video_ids) > maxResults
    /\ Len(video_data) = Len(video_ids) - Cardinality(unavailable)
    /\ unavailable /= {}
    /\ ~ResponsesComplete

----------------------------------------------------------------------------
(* C6 *)

\* C6: a call of get_playlist_id issues exactly one request, whatever comes
\* back; when the response succeeds and its first item has the uploads field,
\* the id returned is that of the first item, whatever the number and the
\* contents of the other items.
C6_FirstItemOneRequest ==
    /\ pc /= "main" => (Len(Ops("channels")) = 1 /\ Len(chanResps) = 1)
    /\ pc = "main" => (log = <<>> /\ chanResps = <<>>)
    /\ Bound("playlistId") =>
         /\ Succeeded(chanResps[1])
         /\ Len(ItemsOf(chanResps[1])) >= 1
         /\ "uploads" \in DOMAIN ItemsOf(chanResps[1])[1].contentDetails.relatedPlaylists
         /\ playlistId = ItemsOf(chanResps[1])[1].contentDetails.relatedPlaylists["uploads"]
    /\ ( /\ chanResps /= <<>>
         /\ Succeeded(chanResps[1])
         /\ Len(ItemsOf(chanResps[1])) >= 1
         /\ "uploads" \in DOMAIN ItemsOf(chanResps[1])[1].contentDetails.relatedPlaylists )
       => Bound("playlistId")

C6_Witness ==
    /\ Bound("playlistId")
    /\ Len(ItemsOf(chanResps[1])) = 2
    /\ ItemsOf(chanResps[1])[2].contentDetails.relatedPlaylists["uploads"] /= playlistId

----------------------------------------------------------------------------
(* C7 *)

FirstRequests == SelectSeq(SubSeq(log, 1, first.at), LAMBDA e : e.op = "videos")
SecondRequests == SubSeq(log, first.at + 1, Len(log))

\* C7: a second call of extract_video_data with the same id list, answered by
\* the same responses, issues the same requests in the same order and ends as
\* the first did: with an equal result (same records, order, keys and values,
\* hence the same JSON text) or with the same exception.
C7_RerunIsIdentical ==
    call = 2 =>
        /\ Len(SecondRequests) <= Len(FirstRequests)
        /\ \A k \in 1..Len(SecondRequests) : SecondRequests[k] = FirstRequests[k]
        /\ pc = "rerun_done" =>
             /\ first.error = None
             /\ SecondRequests = FirstRequests
             /\ vidResps = first.responses
             /\ video_data = first.result
             /\ JsonDump(video_data) = JsonDump(first.result)
        /\ pc = "terminated" =>
             /\ error = first.error
             /\ SecondRequests = FirstRequests

C7_Witness ==
    /\ call = 2
    /\ pc = "rerun_done"
    /\ Len(SecondRequests) >= 2
    /\ Len(video_data) > maxResults
    /\ video_data = first.result

----------------------------------------------------------------------------
(* C8 *)

MalformedChannelResponse ==
    /\ chanResps /= <<>>
    /\ Succeeded(chanResps[1])
    /\ \/ ItemsOf(chanResps[1]) = <<>>
       \/ "uploads" \notin DOMAIN ItemsOf(chanResps[1])[1].contentDetails.relatedPlaylists

\* C8: a channel lookup that succeeds but holds no items, or whose first item
\* lacks the uploads field, ends the run with an IndexError or KeyError, which is
\* no RequestException; no collection id is returned and the run does nothing
\* more: no page fetch, no metadata fetch, no file.
C8_MalformedChannelResponse ==
    MalformedChannelResponse =>
        /\ pc = "terminated"
        /\ error \in {"IndexError", "KeyError"}
        /\ error \notin RequestExceptions
        /\ ("items" \in DOMAIN chanResps[1].data /\ ItemsOf(chanResps[1]) = <<>>)
             => error = "IndexError"
        /\ ~Bound("playlistId")
        /\ playlistId = None
        /\ Len(log) = 1
        /\ pageResps = <<>>
        /\ vidResps = <<>>
        /\ DOMAIN fs = {}

C8_Witness ==
    /\ MalformedChannelResponse
    /\ "items" \in DOMAIN chanResps[1].data
    /\ ItemsOf(chanResps[1]) = <<>>
    /\ error = "IndexError"

----------------------------------------------------------------------------
(* C9 *)

Rank(o) == CASE o = "channels" -> 1
             [] o = "playlistItems" -> 2
             [] o = "videos" -> 3
             [] o = "open_w" -> 4

\* C9: the run does channel lookup, page fetches, metadata requests and the file
\* write in that order and never goes back: a page fetch only after the lookup
\* returned, a metadata request only after the last page returned, at most one
\* write, only after the last batch returned successfully, and nothing after it.
C9_StagesInOrder ==
    /\ \A i \in 1..Len(log) : \A j \in i..Len(log) : Rank(log[i].op) <= Rank(log[j].op)
    /\ Len(Ops("channels")) <= 1
    /\ log /= <<>> => log[1].op = "channels"
    /\ Ops("playlistItems") /= <<>> => Bound("playlistId")
    /\ Ops("videos") /= <<>> =>
         /\ Bound("video_ids")
         /\ Len(Ops("playlistItems")) = Len(pageResps)
         /\ ~HasCursor(pageResps[Len(pageResps)])
    /\ Len(Ops("open_w")) <= 1
    /\ Cardinality(DOMAIN fs) = Len(Ops("open_w"))
    /\ Ops("open_w") /= <<>> =>
         /\ log[Len(log)].op = "open_w"
         /\ pc = "exit"
         /\ Bound("video_data")
         /\ Len(vidResps) = Ceil(Len(video_ids), maxResults)
         /\ Len(Ops("videos")) = Len(vidResps)
         /\ \A k \in 1..Len(vidResps) : Succeeded(vidResps[k])

C9_Witness ==
    /\ pc = "exit"
    /\ Len(Ops("playlistItems")) >= 2
    /\ Len(Ops("videos")) >= 2
    /\ Len(Ops("open_w")) = 1

----------------------------------------------------------------------------
(* C10 *)

\* C10: with an empty id list extract_video_data issues no metadata request and
\* returns an empty result; the run does not fail, goes on to the write, and
\* ends with one output file that holds an empty JSON array.
C10_EmptyIdList ==
    (Bound("video_ids") /\ video_ids = <<>>) =>
        /\ Ops("videos") = <<>>
        /\ vidResps = <<>>
        /\ pc \in {"call_extract", "batch_loop", "call_save", "exit"}
        /\ pc /= "exit" => ENABLED Next
        /\ Bound("video_data") => video_data = <<>>
        /\ pc = "exit" =>
             /\ Len(Ops("open_w")) = 1
             /\ \E path \in DOMAIN fs : DOMAIN fs = {path} /\ fs[path] = <<"[]">>

C10_Witness ==
    /\ pc = "exit"
    /\ video_ids = <<>>
    /\ Bound("video_data")
    /\ \E path \in DOMAIN fs : fs[path] = <<"[]">>

====
